---- MODULE Spec2Model ----
(***************************************************************************)
(* Reversible arithmetic circuit builders of qiskit-terra (arithmetic      *)
(* library): FixedValueComparator, ClassicalAdd, TwosComplement,           *)
(* Subtractor and WeightedAdder.                                           *)
(*                                                                         *)
(* A circuit is a sequence of gates; a gate is a record                    *)
(*   [g |-> kind, q |-> <<cell, ...>>]   with controls first, target last, *)
(* and a cell is <<register name, index>>.  Cells hold classical bits      *)
(* (basis states), on which NOT / CNOT / Toffoli / OR / MCT act as         *)
(* permutations.                                                           *)
(*                                                                         *)
(* A Python Optional value is a sequence of length 0 (None) or 1.          *)
(***************************************************************************)
EXTENDS Integers, Sequences, FiniteSets, TLC

\* largest register width explored
MaxN == 3
\* depth at which the interpreter gives up on nested calls (RecursionError)
MaxDepth == 4
\* non-integer numbers are explored in steps of 1 / Denom
Denom == 4

\* an exception message: its text and the numbers formatted into it
Text(t) == [text |-> t, nums |-> <<>>]
TextWith(t, ns) == [text |-> t, nums |-> ns]

None == <<>>
Some(x) == <<x>>
IsNone(o) == Len(o) = 0
Val(o) == o[1]

RECURSIVE Pow2(_)
Pow2(k) == IF k <= 0 THEN 1 ELSE 2 * Pow2(k - 1)

\* bit i (0 = least significant) of the non-negative integer x
Bit(x, i) == (x \div Pow2(i)) % 2

(***************************************************************************)
(* Gates and their action on basis states                                  *)
(***************************************************************************)
Gate(kind, cells) == [g |-> kind, q |-> cells, anc |-> <<>>]

\* mct(controls, target, ancillas): multi-controlled NOT with borrowed work cells
MCT(controls, target, ancillas) ==
    [g |-> "mct", q |-> controls \o <<target>>, anc |-> ancillas]

Xor(a, b) == (a + b) % 2
And(a, b) == a * b
Or(a, b) == IF a + b > 0 THEN 1 ELSE 0

\* the bit a gate adds (mod 2) to its target cell
GateFlip(gt, st) ==
    CASE gt.g = "x"   -> 1
      [] gt.g = "cx"  -> st[gt.q[1]]
      [] gt.g = "ccx" -> And(st[gt.q[1]], st[gt.q[2]])
      [] gt.g = "or"  -> Or(st[gt.q[1]], st[gt.q[2]])
      [] gt.g = "mct" -> And(st[gt.q[1]], And(st[gt.q[2]], st[gt.q[3]]))
      [] gt.g = "barrier" -> 0

\* value of the cells qs[lo+1] .. qs[lo+k], the first least significant
RECURSIVE CellsValue(_, _, _, _)
CellsValue(st, qs, lo, k) ==
    IF k <= 0 THEN 0
    ELSE st[qs[lo + k]] * Pow2(k - 1) + CellsValue(st, qs, lo, k - 1)

\* an adder block on q = a-cells \o b-cells: b <- (a + b) mod 2^k
ApplyAdd(gt, st) ==
    LET k   == Len(gt.q) \div 2
        sum == (CellsValue(st, gt.q, 0, k) + CellsValue(st, gt.q, k, k)) % Pow2(k)
        tgt == {gt.q[k + i] : i \in 1..k}
        pos(c) == CHOOSE i \in 1..k : gt.q[k + i] = c
    IN  [c \in DOMAIN st |-> IF c \in tgt THEN Bit(sum, pos(c) - 1) ELSE st[c]]

ApplyGate(gt, st) ==
    IF gt.g = "add" THEN ApplyAdd(gt, st)
    ELSE LET t == gt.q[Len(gt.q)]
         IN  [st EXCEPT ![t] = Xor(st[t], GateFlip(gt, st))]

\* gates[lo..hi] applied in order to st; the first half is evaluated to a value
\* (bound by the set constructor) before the second half starts
RECURSIVE RunRange(_, _, _, _)
RunRange(gates, lo, hi, st) ==
    IF lo > hi THEN st
    ELSE IF lo = hi THEN ApplyGate(gates[lo], st)
    ELSE LET mid == (lo + hi) \div 2
         IN  CHOOSE r \in {RunRange(gates, mid + 1, hi, s) :
                              s \in {RunRange(gates, lo, mid, st)}} : TRUE

Run(gates, st) == RunRange(gates, 1, Len(gates), st)

\* the integer held by cells <<reg, 0>> .. <<reg, n-1>>, cell 0 least significant
RECURSIVE RegValue(_, _, _)
RegValue(st, reg, n) ==
    IF n <= 0 THEN 0
    ELSE st[<<reg, n - 1>>] * Pow2(n - 1) + RegValue(st, reg, n - 1)

(***************************************************************************)
(* FixedValueComparator                                                    *)
(***************************************************************************)
VARIABLES
    num_state_qubits,   \* _num_state_qubits : Optional int
    value,              \* _value            : Optional number, counted in 1 / Denom
    geq,                \* _geq              : bool
    data,               \* _data             : Optional gate list (None = not built)
    qregs,              \* _qregs            : sizes of the allocated registers
    op,                 \* the last operation called on the object
    raised,             \* the exception it raised, or "none"
    msg,                \* the exception's message
    failed_unset,       \* history: a build has failed for an unset parameter
    args,               \* arguments of the last constructor call (library session)
    logged,             \* warnings the last call wrote to the module's logger
    result              \* <<argument>> or <<argument, return value>> of the last
                        \* call of a method that returns a computed value, else None

\* an `adder` argument: None, a str, or a circuit with its two counts
NoAdder == [kind |-> "None", num_qubits |-> 0, num_ancillas |-> 0]
StrAdder == [kind |-> "str", num_qubits |-> 0, num_ancillas |-> 0]
Adder(nq, na) == [kind |-> "circuit", num_qubits |-> nq, num_ancillas |-> na]

NoArgs ==
    [n |-> 0, adder |-> NoAdder, weights |-> <<>>, frac |-> <<>>,
     coeffs |-> <<>>, basis |-> "Y", reverse |-> FALSE,
     breakpoints |-> <<>>, slopes |-> <<>>, offsets |-> <<>>,
     slope |-> 0, offset |-> 0]


\* num_ancilla_qubits (property)
num_ancilla_qubits(n) == n - 1

\* int(np.ceil(v / Denom))
Ceil(v) == (v + Denom - 1) \div Denom

RECURSIVE BitLength(_)
BitLength(x) == IF x <= 0 THEN 0 ELSE 1 + BitLength(x \div 2)

\* variant that drops the fraction of the value instead of rounding it up
mut_get_twos_complement(n, v) ==
    [i \in 1..n |-> Bit(Pow2(n) - (v \div Denom), i - 1)]

\* _get_twos_complement: the characters of '{0:b}'.format(2^n - ceil(value)),
\* right-justified with '0' to n characters, read from the last to the first,
\* '1' giving 1 and every other character ('0', '-') giving 0
get_twos_complement(n, v) ==
    LET t    == Pow2(n) - Ceil(v)
        mag  == IF t < 0 THEN 0 - t ELSE t
        text == (IF t < 0 THEN 1 ELSE 0) + (IF t = 0 THEN 1 ELSE BitLength(mag))
        len  == IF text > n THEN text ELSE n
    IN  [i \in 1..len |-> IF i <= BitLength(mag) THEN Bit(mag, i - 1) ELSE 0]

S(i) == <<"state", i>>
A(i) == <<"ancilla", i>>
R    == <<"compare", 0>>

\* forward carry chain of _build, position i
ForwardStep(n, twos, i) ==
    IF i = 0 THEN
        IF twos[i + 1] = 1 THEN <<Gate("cx", <<S(i), A(i)>>)>> ELSE <<>>
    ELSE IF i < n - 1 THEN
        IF twos[i + 1] = 1 THEN <<Gate("or", <<S(i), A(i - 1), A(i)>>)>>
        ELSE <<Gate("ccx", <<S(i), A(i - 1), A(i)>>)>>
    ELSE
        IF twos[i + 1] = 1 THEN <<Gate("or", <<S(i), A(i - 1), R>>)>>
        ELSE <<Gate("ccx", <<S(i), A(i - 1), R>>)>>

\* uncompute chain of _build, position i
ReverseStep(n, twos, i) ==
    IF i = 0 THEN
        IF twos[i + 1] = 1 THEN <<Gate("cx", <<S(i), A(i)>>)>> ELSE <<>>
    ELSE
        IF twos[i + 1] = 1 THEN <<Gate("or", <<S(i), A(i - 1), A(i)>>)>>
        ELSE <<Gate("ccx", <<S(i), A(i - 1), A(i)>>)>>

RECURSIVE ForwardChain(_, _, _)
ForwardChain(n, twos, i) ==
    IF i >= n THEN <<>> ELSE ForwardStep(n, twos, i) \o ForwardChain(n, twos, i + 1)

\* for i in reversed(range(n - 1))
RECURSIVE ReverseChain(_, _, _)
ReverseChain(n, twos, i) ==
    IF i < 0 THEN <<>> ELSE ReverseStep(n, twos, i) \o ReverseChain(n, twos, i - 1)

FlipIfLt(g) == IF ~g THEN <<Gate("x", <<R>>)>> ELSE <<>>

\* the gates _build appends once the configuration check has passed
comparator_gates(n, v, g) ==
    IF v <= 0 THEN
        IF g THEN <<Gate("x", <<R>>)>> ELSE <<>>
    ELSE IF v < Pow2(n) * Denom THEN
        IF n > 1 THEN
            LET twos == get_twos_complement(n, v)
            IN  ForwardChain(n, twos, 0) \o FlipIfLt(g) \o ReverseChain(n, twos, n - 2)
        ELSE
            <<Gate("cx", <<S(0), R>>)>> \o FlipIfLt(g)
    ELSE
        IF ~g THEN <<Gate("x", <<R>>)>> ELSE <<>>

\* _check_configuration and the qregs getter call each other; depth counts the
\* nested calls.  Both return [raised, msg, qregs].
RECURSIVE check_configuration(_, _, _, _)
RECURSIVE qregs_getter(_, _, _, _)
check_configuration(n, v, q, depth) ==
    IF depth > MaxDepth THEN
        [raised |-> "RecursionError", msg |-> Text("maximum recursion depth exceeded"), qregs |-> q]
    ELSE IF IsNone(n) THEN
        [raised |-> "ValueError", msg |-> Text("Number of state qubits is not set."), qregs |-> q]
    ELSE IF IsNone(v) THEN
        [raised |-> "ValueError", msg |-> Text("No comparison value set."), qregs |-> q]
    ELSE
        LET r == qregs_getter(n, v, q, depth + 1)
        IN  IF r.raised # "none" THEN r
            ELSE IF num_ancilla_qubits(Val(n)) > 0 THEN
                IF Len(r.qregs) # 3 THEN
                    [raised |-> "ValueError", msg |-> Text("Expected 3 registers"), qregs |-> r.qregs]
                ELSE [raised |-> "none", msg |-> Text(""), qregs |-> r.qregs]
            ELSE
                IF Len(r.qregs) # 2 THEN
                    [raised |-> "ValueError", msg |-> Text("Expected 2 registers"), qregs |-> r.qregs]
                ELSE [raised |-> "none", msg |-> Text(""), qregs |-> r.qregs]

qregs_getter(n, v, q, depth) ==
    IF depth > MaxDepth THEN
        [raised |-> "RecursionError", msg |-> Text("maximum recursion depth exceeded"), qregs |-> q]
    ELSE
        LET c == check_configuration(n, v, q, depth + 1)
        IN  IF c.raised # "none" THEN c
            ELSE IF Len(c.qregs) = 0 /\ Val(n) > 0 THEN
                [raised |-> "none", msg |-> Text(""),
                 qregs  |-> <<Val(n), 1>> \o
                            (IF num_ancilla_qubits(Val(n)) > 0
                             THEN <<num_ancilla_qubits(Val(n))>> ELSE <<>>)]
            ELSE [raised |-> "none", msg |-> Text(""), qregs |-> c.qregs]

\* _build: returns [raised, msg, data, qregs]
build(n, v, g, d, q) ==
    IF ~IsNone(d) /\ Len(Val(d)) > 0 THEN
        [raised |-> "none", msg |-> Text(""), data |-> d, qregs |-> q]
    ELSE
        LET c == check_configuration(n, v, q, 0)
        IN  IF c.raised # "none" THEN
                [raised |-> c.raised, msg |-> c.msg, data |-> d, qregs |-> c.qregs]
            ELSE
                \* self._data = [] ; then the registers are read through the getter
                LET r == qregs_getter(n, v, c.qregs, 0)
                IN  IF r.raised # "none" THEN
                        [raised |-> r.raised, msg |-> r.msg, data |-> Some(<<>>),
                         qregs |-> r.qregs]
                    ELSE
                        [raised |-> "none", msg |-> Text(""),
                         data |-> Some(comparator_gates(Val(n), Val(v), g)),
                         qregs |-> r.qregs]

\* the `data` getter and `copy`: build when nothing is cached
build_if_none(n, v, g, d, q) ==
    IF IsNone(d) THEN build(n, v, g, d, q)
    ELSE [raised |-> "none", msg |-> Text(""), data |-> d, qregs |-> q]

NumDomain == {None} \cup {Some(n) : n \in 1..MaxN}
ValueDomain == {None} \cup {Some(v) : v \in (0 - Denom)..(Pow2(MaxN) * Denom)}

\* __init__(num_state_qubits, value, geq)
Init ==
    /\ num_state_qubits \in NumDomain
    /\ value \in ValueDomain
    /\ geq \in BOOLEAN
    /\ data = None
    /\ qregs = <<>>
    /\ op = "init"
    /\ raised = "none"
    /\ msg = Text("")
    /\ failed_unset = FALSE
    /\ args = NoArgs
    /\ logged = <<>>
    /\ result = None

\* value.setter
set_value(v) ==
    /\ op' = "set_value"
    /\ raised' = "none"
    /\ msg' = Text("")
    /\ IF v = value
       THEN UNCHANGED <<value, data>>
       ELSE data' = None /\ value' = v
    /\ result' = None
    /\ UNCHANGED <<num_state_qubits, geq, qregs, failed_unset, args, logged>>

\* geq.setter
set_geq(g) ==
    /\ op' = "set_geq"
    /\ raised' = "none"
    /\ msg' = Text("")
    /\ IF g = geq
       THEN UNCHANGED <<geq, data>>
       ELSE data' = None /\ geq' = g
    /\ result' = None
    /\ UNCHANGED <<num_state_qubits, value, qregs, failed_unset, args, logged>>

\* num_state_qubits.setter
set_num_state_qubits(n) ==
    /\ op' = "set_num_state_qubits"
    /\ raised' = "none"
    /\ msg' = Text("")
    /\ IF n = num_state_qubits
       THEN UNCHANGED <<num_state_qubits, data, qregs>>
       ELSE data' = None /\ qregs' = <<>> /\ num_state_qubits' = n
    /\ result' = None
    /\ UNCHANGED <<value, geq, failed_unset, args, logged>>

\* the `data` property
get_data ==
    LET b == build_if_none(num_state_qubits, value, geq, data, qregs)
    IN  /\ op' = "data"
        /\ raised' = b.raised
        /\ msg' = b.msg
        /\ data' = b.data
        /\ qregs' = b.qregs
        /\ failed_unset' = (failed_unset \/ (b.raised = "ValueError" /\
                               (IsNone(num_state_qubits) \/ IsNone(value))))
        /\ result' = None
        /\ UNCHANGED <<num_state_qubits, value, geq, args, logged>>

\* copy()
copy ==
    LET b == build_if_none(num_state_qubits, value, geq, data, qregs)
    IN  /\ op' = "copy"
        /\ raised' = b.raised
        /\ msg' = b.msg
        /\ data' = b.data
        /\ qregs' = b.qregs
        /\ failed_unset' = (failed_unset \/ (b.raised = "ValueError" /\
                               (IsNone(num_state_qubits) \/ IsNone(value))))
        /\ result' = None
        /\ UNCHANGED <<num_state_qubits, value, geq, args, logged>>

\* draw(): renders the circuit's data
draw ==
    LET b == build_if_none(num_state_qubits, value, geq, data, qregs)
    IN  /\ op' = "draw"
        /\ raised' = b.raised
        /\ msg' = b.msg
        /\ data' = b.data
        /\ qregs' = b.qregs
        /\ failed_unset' = (failed_unset \/ (b.raised = "ValueError" /\
                               (IsNone(num_state_qubits) \/ IsNone(value))))
        /\ result' = None
        /\ UNCHANGED <<num_state_qubits, value, geq, args, logged>>

\* a direct call of _get_twos_complement()
call_get_twos_complement ==
    /\ op' = "_get_twos_complement"
    /\ IF IsNone(num_state_qubits) \/ IsNone(value)
       THEN \* pow(2, None), np.ceil(None)
            /\ raised' = "TypeError"
            /\ msg' = Text("unsupported operand type(s)")
            /\ result' = None
       ELSE /\ raised' = "none"
            /\ msg' = Text("")
            /\ result' = Some(get_twos_complement(Val(num_state_qubits), Val(value)))
    /\ UNCHANGED <<num_state_qubits, value, geq, data, qregs, failed_unset, args, logged>>

Next ==
    \/ \E v \in ValueDomain : set_value(v)
    \/ \E g \in BOOLEAN : set_geq(g)
    \/ \E n \in NumDomain : set_num_state_qubits(n)
    \/ get_data
    \/ copy
    \/ draw
    \/ call_get_twos_complement

vars == <<num_state_qubits, value, geq, data, qregs, op, raised, msg, failed_unset, args,
          logged, result>>

Spec == Init /\ [][Next]_vars

(***************************************************************************)
(* FixedValueComparator: properties                                        *)
(***************************************************************************)
CmpCells(n) ==
    {S(i) : i \in 0..(n - 1)} \cup {A(i) : i \in 0..(n - 1)} \cup {R}

\* state = x, result = 0, ancillas = 0
CmpInput(n, x) ==
    [c \in CmpCells(n) |-> IF c[1] = "state" THEN Bit(x, c[2]) ELSE 0]

IsRead == op \in {"data", "copy", "draw"}
Configured == ~IsNone(num_state_qubits) /\ ~IsNone(value)
Built == raised = "none" /\ ~IsNone(data)

\* C1: a read of `data` with width n and value set yields a gate sequence that,
\* on state = x, result = 0, ancillas = 0, leaves state = x and sets result to 1
\* exactly when (x >= value) = geq.
C1_ComparatorCorrect ==
    (op = "data" /\ Configured) =>
        /\ Built
        /\ LET n == Val(num_state_qubits)
           IN  \A x \in 0..(Pow2(n) - 1) :
                   LET out == Run(Val(data), CmpInput(n, x))
                   IN  /\ RegValue(out, "state", n) = x
                       /\ out[R] = (IF (x * Denom >= Val(value)) = geq THEN 1 ELSE 0)

\* C2: after the last gate of the circuit read from `data`, every ancilla cell
\* holds 0 again, for every input x.
C2_AncillasRestored ==
    (op = "data" /\ Configured) =>
        /\ Built
        /\ LET n == Val(num_state_qubits)
           IN  \A x \in 0..(Pow2(n) - 1) : \A i \in 0..(n - 2) :
                   Run(Val(data), CmpInput(n, x))[A(i)] = 0

\* C3: after any sequence of assignments, a read of `data` returns the gate
\* sequence of a freshly constructed comparator with the current parameters,
\* over registers of sizes (n, 1, n-1).
C3_NoStaleCircuit ==
    (op = "data" /\ Configured) =>
        LET n     == Val(num_state_qubits)
            fresh == build(num_state_qubits, value, geq, None, <<>>)
        IN  /\ Built
            /\ fresh.raised = "none"
            /\ data = fresh.data
            /\ qregs = <<n, 1>> \o (IF n > 1 THEN <<n - 1>> ELSE <<>>)

\* C4: a build with num_state_qubits or value unset fails, emits no gate and
\* leaves the cache unbuilt; once both are set afterwards, the next read builds
\* the circuit for those parameters.
C4_FailThenBuild ==
    /\ (IsRead /\ ~Configured) => (raised # "none" /\ IsNone(data))
    /\ (IsRead /\ Configured /\ failed_unset) =>
           (Built /\ data = Some(comparator_gates(Val(num_state_qubits), Val(value), geq)))

\* C5: drawing a comparator whose num_state_qubits or value is unset raises an
\* AttributeError.
C5_DrawRaisesAttributeError ==
    (op = "draw" /\ ~Configured) => raised = "AttributeError"


(***************************************************************************)
(* Library session: constructor calls                                      *)
(*   op   = the class constructed last                                     *)
(*   args = its arguments                                                  *)
(*   raised / msg = the exception the constructor raised, or "none"        *)
(*   data / qregs = the gates and registers of the object, None / <<>>     *)
(*                  when no circuit was initialised                        *)
(***************************************************************************)
Max(a, b) == IF a >= b THEN a ELSE b

\* cells <<reg, 0>> .. <<reg, k-1>>   (reg[:k])
Cells(reg, k) == [i \in 1..k |-> <<reg, i - 1>>]

Raise(kind, text, d, q) == [raised |-> kind, msg |-> Text(text), data |-> d, qregs |-> q]
Return(d, q) == [raised |-> "none", msg |-> Text(""), data |-> d, qregs |-> q]

(***************************************************************************)
(* ClassicalAdd                                                            *)
(***************************************************************************)
\* base classes of `class ClassicalAdd():` (the QuantumCircuit base is commented out)
ClassicalAddBases == {}

\* names bound inside ClassicalAdd.__init__ when the loops run
ClassicalAddScope ==
    {"self", "num_state_qubits", "name", "QuantumRegister", "QuantumCircuit",
     "BasicAer", "execute", "qr_a", "qr_b", "qr_cin", "qr_cout",
     "qc_carry", "qc_instruction_carry", "qc_sum", "qc_instruction_sum"}

\* qc_carry on the cells qs = <<q0, q1, q2, q3>>
Carry(qs) ==
    << Gate("ccx", <<qs[2], qs[3], qs[4]>>),
       Gate("cx",  <<qs[2], qs[3]>>),
       Gate("ccx", <<qs[1], qs[3], qs[4]>>) >>

\* qc_sum on the cells qs = <<q0, q1, q2>>
Sum(qs) ==
    << Gate("cx", <<qs[2], qs[3]>>),
       Gate("cx", <<qs[1], qs[3]>>) >>

Cin(j) == <<"cin", j>>
Qa(j)  == <<"a", j>>
Qb(j)  == <<"b", j>>
Cout   == <<"cout", 0>>

\* for j in range(n-1): append(carry, [cin[j], a[j], b[j], cin[j+1]])
RECURSIVE AddForward(_, _)
AddForward(n, j) ==
    IF j >= n - 1 THEN <<>>
    ELSE Carry(<<Cin(j), Qa(j), Qb(j), Cin(j + 1)>>) \o AddForward(n, j + 1)

\* the three statements on the most significant position
AddTop(n) ==
    Carry(<<Cin(n - 1), Qa(n - 1), Qb(n - 1), Cout>>)
    \o <<Gate("cx", <<Qa(n - 1), Qb(n - 1)>>)>>
    \o Sum(<<Cin(n - 1), Qa(n - 1), Qb(n - 1)>>)

\* for j in reversed(range(num_qubits_a - 1)): append(carry, ...); append(sum, ...)
RECURSIVE AddBackward(_)
AddBackward(j) ==
    IF j < 0 THEN <<>>
    ELSE Carry(<<Cin(j), Qa(j), Qb(j), Cin(j + 1)>>)
         \o Sum(<<Cin(j), Qa(j), Qb(j)>>)
         \o AddBackward(j - 1)

\* the gates of the build loops, for given values of the names n and num_qubits_a
ClassicalAddGates(n, num_qubits_a) ==
    AddForward(n, 0) \o AddTop(n) \o AddBackward(num_qubits_a - 2)

\* ClassicalAdd.__init__(num_state_qubits)
ClassicalAdd_init(num) ==
    IF "QuantumCircuit" \notin ClassicalAddBases THEN
        \* super().__init__(qr_a, qr_b, qr_cin, qr_cout, name=name) reaches object.__init__
        Raise("TypeError", "object.__init__() takes exactly one argument", None, <<>>)
    ELSE IF "n" \notin ClassicalAddScope THEN
        Raise("NameError", "name 'n' is not defined", Some(<<>>), <<num, num, num, 1>>)
    ELSE IF "num_qubits_a" \notin ClassicalAddScope THEN
        Raise("NameError", "name 'num_qubits_a' is not defined",
              Some(AddForward(num, 0) \o AddTop(num)), <<num, num, num, 1>>)
    ELSE
        Return(Some(ClassicalAddGates(num, num)), <<num, num, num, 1>>)

(***************************************************************************)
(* TwosComplement and Subtractor                                           *)
(***************************************************************************)
\* position of cell c in the qubit list qs
Index(qs, c) == CHOOSE i \in 1..Len(qs) : qs[i] = c

\* a gate of a sub-circuit with qubit list `from`, spliced onto the cells `to`
RemapGate(gt, from, to) ==
    [gt EXCEPT !.q   = [i \in 1..Len(gt.q) |-> to[Index(from, gt.q[i])]],
               !.anc = [i \in 1..Len(gt.anc) |-> to[Index(from, gt.anc[i])]]]

\* compose(sub, qubits=to): the sub-circuit's gates on the parent's cells
compose(sub, from, to) ==
    IF Len(to) # Len(from) THEN
        [raised |-> "CircuitError",
         msg |-> TextWith("Number of items in qubits parameter does not match "
                          \o "number of qubits in the circuit.", <<Len(to), Len(from)>>),
         gates |-> <<>>]
    ELSE [raised |-> "none", msg |-> Text(""),
          gates |-> [i \in 1..Len(sub) |-> RemapGate(sub[i], from, to)]]

\* an adder instruction on operand cells acells, bcells and work cells
AddGate(acells, bcells, work) == [g |-> "add", q |-> acells \o bcells, anc |-> work]

TwosComplementQubits(n) == Cells("input_b", n) \o Cells("cin", n)

\* x on every cell of b_qr
RECURSIVE FlipAll(_, _)
FlipAll(n, j) ==
    IF j >= n THEN <<>> ELSE <<Gate("x", <<<<"input_b", j>>>>)>> \o FlipAll(n, j + 1)

\* the gates TwosComplement.__init__ appends
TwosComplementGates(n) ==
    <<Gate("barrier", TwosComplementQubits(n))>>
    \o <<Gate("x", <<<<"cin", 0>>>>)>>
    \o <<Gate("barrier", TwosComplementQubits(n))>>
    \o FlipAll(n, 0)
    \o <<AddGate(Cells("cin", n), Cells("input_b", n), <<>>)>>
    \o <<Gate("x", <<<<"cin", 0>>>>)>>

\* TwosComplement.__init__(num_state_qubits, adder); returns the object's
\* data, qregs and num_ancillas, or the exception
TwosComplement_init(n, adder) ==
    IF n < 1 THEN
        Raise("ValueError", "The number of qubits must be at least 1.", None, <<>>)
        @@ [num_ancillas |-> 0]
    ELSE IF adder.kind = "str" THEN
        \* adder.num_qubits on the default argument 'QFTAdder'
        Raise("AttributeError", "'str' object has no attribute 'num_qubits'", None, <<>>)
        @@ [num_ancillas |-> 0]
    ELSE
        Return(Some(TwosComplementGates(n)), <<n, n>>) @@ [num_ancillas |-> n]

\* DraperQFTAdder(num_state_qubits, kind="fixed"): registers a and b, no work cells
DraperQFTAdder(n) == Adder(2 * n, 0)

\* TwosComplement(num_state_qubits, adder); StrAdder is the default argument
new_TwosComplement(n, adder) ==
    LET r == TwosComplement_init(n, adder)
    IN  /\ op = "import"
        /\ op' = "TwosComplement"
        /\ args' = [NoArgs EXCEPT !.n = n, !.adder = adder]
        /\ raised' = r.raised
        /\ msg' = r.msg
        /\ data' = r.data
        /\ qregs' = r.qregs
        /\ logged' = <<>>
        /\ UNCHANGED <<num_state_qubits, value, geq, failed_unset, result>>

\* _check_adder_is_compatible(num_state_qubits, adder)
mut_check_adder_is_compatible(num, adder) ==
    LET target == 2 * (num + 1)
        actual == adder.num_qubits
    IN  IF target # actual THEN
            [raised |-> "ValueError",
             msg |-> TextWith("The number of state qubits of the input adder does not "
                              \o "match the expected number.", <<actual, target>>)]
        ELSE [raised |-> "none", msg |-> Text("")]

check_adder_is_compatible(num, adder) ==
    LET target_num_state_qubits == 2 * (num + 1)
        actual_num_state_qubits == adder.num_qubits - adder.num_ancillas
    IN  IF target_num_state_qubits # actual_num_state_qubits THEN
            [raised |-> "ValueError",
             msg |-> TextWith("The number of state qubits of the input adder does not "
                              \o "match the expected number.",
                              <<actual_num_state_qubits, target_num_state_qubits>>)]
        ELSE [raised |-> "none", msg |-> Text("")]

\* qr_b[:] + carry_b[:] + qr_h[: twos_complement.num_ancillas]
NegatorQubits(num, num_ancillas) ==
    Cells("b", num) \o Cells("carry_b", 1) \o Cells("helper", num_ancillas)

\* qr_a[:] + carry_a[:] + qr_b[:] + carry_b[:] + qr_h[: adder.num_ancillas]
AdderQubits(num, num_ancillas) ==
    Cells("a", num) \o Cells("carry_a", 1) \o Cells("b", num) \o Cells("carry_b", 1)
    \o Cells("helper", num_ancillas)

\* Subtractor.__init__(num_state_qubits, adder)
Subtractor_init(num, adder_arg) ==
    LET chk   == IF adder_arg.kind = "None" THEN [raised |-> "none", msg |-> Text("")]
                 ELSE check_adder_is_compatible(num, adder_arg)
        adder == IF adder_arg.kind = "None" THEN DraperQFTAdder(num + 1) ELSE adder_arg
    IN  IF chk.raised # "none" THEN
            [raised |-> chk.raised, msg |-> chk.msg, data |-> None, qregs |-> <<>>]
        ELSE
            LET tc == TwosComplement_init(num, StrAdder)
            IN  IF tc.raised # "none" THEN
                    [raised |-> tc.raised, msg |-> tc.msg, data |-> None, qregs |-> <<>>]
                ELSE
                    LET num_helper_qubits == Max(adder.num_ancillas, tc.num_ancillas)
                        regs   == <<num, num, 1, 1, num_helper_qubits>>
                        qr_a   == Cells("a", num)
                        qr_b   == Cells("b", num)
                        carry_b == Cells("carry_b", 1)
                        carry_a == Cells("carry_a", 1)
                        neg    == compose(Val(tc.data), TwosComplementQubits(num),
                                          NegatorQubits(num, tc.num_ancillas))
                        work   == Cells("helper", adder.num_ancillas)
                        addq   == AdderQubits(num, adder.num_ancillas)
                    IN  IF neg.raised # "none" THEN
                            [raised |-> neg.raised, msg |-> neg.msg,
                             data |-> Some(<<>>), qregs |-> regs]
                        ELSE IF Len(addq) # adder.num_qubits THEN
                            [raised |-> "CircuitError",
                             msg |-> TextWith("Number of items in qubits parameter does "
                                              \o "not match number of qubits in the circuit.",
                                              <<Len(addq), adder.num_qubits>>),
                             data |-> Some(neg.gates), qregs |-> regs]
                        ELSE
                            Return(Some(neg.gates \o
                                        <<AddGate(qr_a \o carry_a, qr_b \o carry_b, work)>>),
                                   regs)

new_Subtractor(n, adder) ==
    LET r == Subtractor_init(n, adder)
    IN  /\ op = "import"
        /\ op' = "Subtractor"
        /\ args' = [NoArgs EXCEPT !.n = n, !.adder = adder]
        /\ raised' = r.raised
        /\ msg' = r.msg
        /\ data' = r.data
        /\ qregs' = r.qregs
        /\ logged' = <<>>
        /\ UNCHANGED <<num_state_qubits, value, geq, failed_unset, result>>

\* the adders a caller can supply: circuits of any width and work-cell count
MaxWork == 2
AdderDomain ==
    {NoAdder} \cup {Adder(nq, na) : nq \in 0..(2 * (MaxN + 1) + MaxWork), na \in 0..MaxWork}

(***************************************************************************)
(* WeightedAdder                                                           *)
(***************************************************************************)
RECURSIVE SeqSum(_)
SeqSum(w) == IF Len(w) = 0 THEN 0 ELSE Head(w) + SeqSum(Tail(w))

\* a weight is weights[i] + frac[i] / Denom
\* floor(log2(q / d)) for q >= 1
RECURSIVE FloorLog2(_, _)
FloorLog2(q, d) ==
    IF q >= d THEN BitLength(q \div d) - 1 ELSE FloorLog2(2 * q, d) - 1

\* get_required_sum_qubits: int(floor(log2(sum(weights))) + 1), for sum > 0
get_required_sum_qubits(weights, frac) ==
    FloorLog2(SeqSum(weights) * Denom + SeqSum(frac), Denom) + 1

\* the (i, weight) pairs of the warnings: not isclose(weight, round(weight))
RECURSIVE weight_warnings(_, _, _)
weight_warnings(weights, frac, i) ==
    IF i >= Len(weights) THEN <<>>
    ELSE (IF frac[i + 1] # 0 THEN <<<<i, weights[i + 1], frac[i + 1]>>>> ELSE <<>>)
         \o weight_warnings(weights, frac, i + 1)

\* variant without the extra cell for the multi-controlled NOT
mut_num_ancillas(m) == m - 1

\* num_ancillas (property), m = num_sum_qubits
num_ancillas(m) == IF m > 2 THEN (m - 1) + 1 ELSE m - 1

Qs(i)   == <<"state", i>>
Qsum(j) == <<"sum", j>>
\* qr_carry = qr_ancilla[:num_carry_qubits]
Qcarry(j) == <<"ancilla", j>>

\* compute pass of _build for bit j of one weight; q_state = state[i]
ComputeStep(m, i, j, bit, q_control) ==
    IF bit = 1 THEN
        IF m = 1 THEN <<Gate("cx", <<Qs(i), Qsum(j)>>)>>
        ELSE IF j = 0 THEN
            << Gate("ccx", <<Qs(i), Qsum(j), Qcarry(j)>>),
               Gate("cx", <<Qs(i), Qsum(j)>>) >>
        ELSE IF j = m - 1 THEN
            << Gate("cx", <<Qs(i), Qsum(j)>>),
               Gate("ccx", <<Qs(i), Qcarry(j - 1), Qsum(j)>>) >>
        ELSE
            << Gate("x", <<Qsum(j)>>),
               Gate("x", <<Qcarry(j - 1)>>),
               MCT(<<Qs(i), Qsum(j), Qcarry(j - 1)>>, Qcarry(j), <<q_control>>),
               Gate("cx", <<Qs(i), Qcarry(j)>>),
               Gate("x", <<Qsum(j)>>),
               Gate("x", <<Qcarry(j - 1)>>),
               Gate("cx", <<Qs(i), Qsum(j)>>),
               Gate("ccx", <<Qs(i), Qcarry(j - 1), Qsum(j)>>) >>
    ELSE
        IF m = 1 THEN <<>>
        ELSE IF j = 0 THEN <<>>
        ELSE IF j = m - 1 THEN
            <<Gate("ccx", <<Qs(i), Qcarry(j - 1), Qsum(j)>>)>>
        ELSE
            << MCT(<<Qs(i), Qsum(j), Qcarry(j - 1)>>, Qcarry(j), <<q_control>>),
               Gate("ccx", <<Qs(i), Qcarry(j - 1), Qsum(j)>>) >>

\* variant whose uncompute step for bit 0 repeats the compute step's ccx without
\* the x gates around it
mut_UncomputeStep(m, i, j, bit, q_control) ==
    IF bit = 1 THEN
        IF m = 1 THEN <<>>
        ELSE IF j = 0 THEN
            << Gate("ccx", <<Qs(i), Qsum(j), Qcarry(j)>>) >>
        ELSE IF j = m - 1 THEN <<>>
        ELSE
            << Gate("x", <<Qcarry(j - 1)>>),
               MCT(<<Qs(i), Qsum(j), Qcarry(j - 1)>>, Qcarry(j), <<q_control>>),
               Gate("cx", <<Qs(i), Qcarry(j)>>),
               Gate("x", <<Qcarry(j - 1)>>) >>
    ELSE
        IF m = 1 THEN <<>>
        ELSE IF j = 0 THEN <<>>
        ELSE IF j = m - 1 THEN <<>>
        ELSE
            << Gate("x", <<Qsum(j)>>),
               MCT(<<Qs(i), Qsum(j), Qcarry(j - 1)>>, Qcarry(j), <<q_control>>),
               Gate("x", <<Qsum(j)>>) >>

\* uncompute pass of _build for bit j of one weight
UncomputeStep(m, i, j, bit, q_control) ==
    IF bit = 1 THEN
        IF m = 1 THEN <<>>
        ELSE IF j = 0 THEN
            << Gate("x", <<Qsum(j)>>),
               Gate("ccx", <<Qs(i), Qsum(j), Qcarry(j)>>),
               Gate("x", <<Qsum(j)>>) >>
        ELSE IF j = m - 1 THEN <<>>
        ELSE
            << Gate("x", <<Qcarry(j - 1)>>),
               MCT(<<Qs(i), Qsum(j), Qcarry(j - 1)>>, Qcarry(j), <<q_control>>),
               Gate("cx", <<Qs(i), Qcarry(j)>>),
               Gate("x", <<Qcarry(j - 1)>>) >>
    ELSE
        IF m = 1 THEN <<>>
        ELSE IF j = 0 THEN <<>>
        ELSE IF j = m - 1 THEN <<>>
        ELSE
            << Gate("x", <<Qsum(j)>>),
               MCT(<<Qs(i), Qsum(j), Qcarry(j - 1)>>, Qcarry(j), <<q_control>>),
               Gate("x", <<Qsum(j)>>) >>

\* weight_binary: the weight's bits, least significant first, padded to m
weight_binary(m, weight) ==
    LET len == Max(m, Max(1, BitLength(weight)))
    IN  [k \in 1..len |-> Bit(weight, k - 1)]

RECURSIVE ComputePass(_, _, _, _, _)
ComputePass(m, i, wb, j, q_control) ==
    IF j >= Len(wb) THEN <<>>
    ELSE ComputeStep(m, i, j, wb[j + 1], q_control)
         \o ComputePass(m, i, wb, j + 1, q_control)

RECURSIVE UncomputePass(_, _, _, _, _)
UncomputePass(m, i, wb, j, q_control) ==
    IF j < 0 THEN <<>>
    ELSE UncomputeStep(m, i, j, wb[j + 1], q_control)
         \o UncomputePass(m, i, wb, j - 1, q_control)

\* both passes for state qubit i
WeightGates(m, i, weight, fr, q_control) ==
    \* if weight == 0: continue
    IF weight = 0 /\ fr = 0 THEN <<>>
    \* int(weight) drops the fraction
    ELSE LET wb == weight_binary(m, weight)
         IN  ComputePass(m, i, wb, 0, q_control)
             \o UncomputePass(m, i, wb, Len(wb) - 1, q_control)

\* for i, weight in enumerate(self.weights)
RECURSIVE WeightLoop(_, _, _, _, _)
WeightLoop(m, weights, frac, i, q_control) ==
    IF i >= Len(weights) THEN <<>>
    ELSE WeightGates(m, i, weights[i + 1], frac[i + 1], q_control)
         \o WeightLoop(m, weights, frac, i + 1, q_control)

\* WeightedAdder.__init__(num_state_qubits, weights), with _build
WeightedAdder_init(num, weights, frac) ==
    IF SeqSum(weights) = 0 /\ SeqSum(frac) = 0 THEN
        \* int(floor(log2(0)) + 1)
        Raise("OverflowError", "cannot convert float infinity to integer", None, <<>>)
    ELSE
        LET m    == get_required_sum_qubits(weights, frac)
            num_carry_qubits == m - 1
            regs == <<num, m, num_ancillas(m)>>
        IN  IF num_ancillas(m) < 0 THEN
                \* QuantumRegister(self.num_ancillas) for a sum below 1
                Raise("CircuitError", "Register size must be non-negative", None, <<>>)
            ELSE IF num_carry_qubits >= num_ancillas(m) THEN
                \* q_control = qr_ancilla[self.num_carry_qubits]
                Raise("IndexError", "register index out of range", Some(<<>>), regs)
            ELSE
                Return(Some(WeightLoop(m, weights, frac, 0, <<"ancilla", num_carry_qubits>>)),
                       regs)

new_WeightedAdder(n, weights, frac) ==
    LET r == WeightedAdder_init(n, weights, frac)
    IN  /\ op = "import"
        /\ op' = "WeightedAdder"
        /\ args' = [NoArgs EXCEPT !.n = n, !.weights = weights, !.frac = frac]
        /\ raised' = r.raised
        /\ msg' = r.msg
        /\ data' = r.data
        /\ qregs' = r.qregs
        /\ logged' = weight_warnings(weights, frac, 0)
        /\ UNCHANGED <<num_state_qubits, value, geq, failed_unset, result>>

\* largest single weight explored
MaxWeight == 3
\* weight vectors, the integer parts in non-decreasing order
WeightDomain(n) ==
    {w \in [1..n -> 0..MaxWeight] : \A i \in 1..(n - 1) : w[i] <= w[i + 1]}
\* fractional parts: only the first weight of a vector may be a non-integer
FracDomain(n) ==
    {f \in [1..n -> 0..(Denom - 1)] : \A i \in 2..n : f[i] = 0}

new_ClassicalAdd(n) ==
    LET r == ClassicalAdd_init(n)
    IN  /\ op = "import"
        /\ op' = "ClassicalAdd"
        /\ args' = [NoArgs EXCEPT !.n = n]
        /\ raised' = r.raised
        /\ msg' = r.msg
        /\ data' = r.data
        /\ qregs' = r.qregs
        /\ logged' = <<>>
        /\ UNCHANGED <<num_state_qubits, value, geq, failed_unset, result>>

(***************************************************************************)
(* PolynomialRotation                                                      *)
(* Angles are integers (multiples of one common unit); a rotation gate is  *)
(* [g, q, anc, theta] with the controls first and the target last in q.    *)
(***************************************************************************)
\* largest polynomial degree and largest magnitude of a coefficient explored
MaxDegree == 2
MaxCoeff == 1

\* str.lower() on the basis strings explored
Lower(b) ==
    IF b = "X" THEN "x" ELSE IF b = "Y" THEN "y" ELSE IF b = "Z" THEN "z"
    ELSE IF b = "W" THEN "w" ELSE b
BasisDomain == {"Y", "x", "W"}

\* sum of the values of a function with a finite domain
FnSum(f) ==
    LET RECURSIVE PairSum(_)
        PairSum(ps) == IF ps = {} THEN 0
                       ELSE LET p == CHOOSE p \in ps : TRUE
                            IN  p[2] + PairSum(ps \ {p})
    IN  PairSum({<<x, f[x]>> : x \in DOMAIN f})

\* m[0] + ... + m[k]
RECURSIVE TupleSum(_, _)
TupleSum(m, k) == IF k < 0 THEN 0 ELSE m[k] + TupleSum(m, k - 1)

RECURSIVE Factorial(_)
Factorial(k) == IF k <= 1 THEN 1 ELSE k * Factorial(k - 1)

\* the tuples of k exponents with sum j, as sequences
RECURSIVE Exponents(_, _)
Exponents(k, j) ==
    IF k = 0 THEN (IF j = 0 THEN {<<>>} ELSE {})
    ELSE UNION {{Append(e, a) : e \in Exponents(k - 1, j - a)} : a \in 0..j}

\* the same tuples indexed from 0, as the code indexes them
ExponentTuples(n, j) == {[k \in 0..(n - 1) |-> e[k + 1]] : e \in Exponents(n, j)}

\* variant in which every expansion term counts once
mut_multinomial_coefficients(n, j) ==
    [m \in ExponentTuples(n, j) |-> 1]

\* multinomial_coefficients(n, j): the tuples m of n exponents with sum j, each
\* with j! / (m[0]! ... m[n-1]!)
multinomial_coefficients(n, j) ==
    [m \in ExponentTuples(n, j) |->
        LET RECURSIVE Below(_)
            Below(k) == IF k >= n THEN 1 ELSE Factorial(m[k]) * Below(k + 1)
        IN  Factorial(j) \div Below(0)]

\* _get_controls: the monomials, each the set of state bits it is controlled on
\* (the positions holding 1 in the code's tuple), all with angle 0
get_controls(n, degree) ==
    [c \in {c \in SUBSET (0..(n - 1)) : c # {} /\ Cardinality(c) <= degree}
           \cup {{n - 1}} |-> 0]

\* the expansion terms of power j, as <<j, m, coefficient of m>>, for j = 1 .. degree
PolyTerms(n, degree) ==
    UNION {UNION {{<<j, m, mc[m]>> : m \in DOMAIN mc} :
                     mc \in {multinomial_coefficients(n, j)}} : j \in 1..degree}

\* PolyTerms for every width and degree explored, computed once
TermsTable == [n \in 1..MaxN |-> [d \in 0..MaxDegree |-> PolyTerms(n, d)]]

\* temp_t of an expansion term: the positions with a positive exponent
TermControls(n, m) == {k \in 0..(n - 1) : m[k] > 0}

\* _get_thetas(cdict); coeffs[j + 1] is the code's coeffs[j]
get_thetas(n, coeffs, cdict) ==
    CHOOSE thetas \in
        {[c \in DOMAIN cdict |->
            cdict[c] + FnSum([t \in {t \in terms : TermControls(n, t[2]) = c} |->
                \* powers *= 2 ** (k * m[k])
                LET powers == Pow2(TupleSum([k \in 0..(n - 1) |-> k * t[2][k]], n - 1))
                IN  coeffs[t[1] + 1] * t[3] * powers])] :
         terms \in {TermsTable[n][Len(coeffs) - 1]}} :
        \* the comparison makes the table be evaluated in full, once
        thetas = thetas

\* the controlled rotations of _build, in the order of the dictionary: the tuples
\* in the order of itertools.product, r being the tuple read as a binary number
RECURSIVE PolyGates(_, _, _, _, _, _)
PolyGates(n, thetas, basis, reverse, ancillas, r) ==
    IF r >= Pow2(n) THEN <<>>
    ELSE LET c == {k \in 0..(n - 1) : Bit(r, n - 1 - k) = 1}
             RECURSIVE Controls(_)
             Controls(i) ==
                 IF i >= n THEN <<>>
                 ELSE (IF i \in c
                       THEN <<IF reverse THEN <<"state", n - i - 1>> ELSE <<"state", i>>>>
                       ELSE <<>>) \o Controls(i + 1)
             \* mcrx / mcry / mcrz, or for one control u3 (basis x) / cry / crz
             kind == IF Cardinality(c) > 1 THEN "mcr"
                     ELSE IF basis = "x" THEN "u3" ELSE "cr"
         IN  (IF c \in DOMAIN thetas
              THEN <<[g |-> kind, basis |-> basis,
                      q |-> Controls(0) \o <<<<"target", 0>>>>,
                      anc |-> IF Cardinality(c) > 1 THEN ancillas ELSE <<>>,
                      theta |-> 2 * thetas[c]]>>
              ELSE <<>>) \o PolyGates(n, thetas, basis, reverse, ancillas, r + 1)

\* PolynomialRotation.__init__(num_state_qubits, coeffs, basis, reverse), with _build
PolynomialRotation_init(n, coeffs, basis_arg, reverse) ==
    LET degree == Len(coeffs) - 1
        basis  == Lower(basis_arg)
        \* num_ancillas
        regs   == <<n, 1, Max(1, degree - 1)>>
        cdict  == get_controls(n, degree)
    IN  IF basis \notin {"x", "y", "z"} THEN
            Raise("ValueError", "The provided basis must be X, Y or Z", None, <<>>)
        ELSE IF \E t \in TermsTable[n][degree] : TermControls(n, t[2]) \notin DOMAIN cdict THEN
            \* cdict[temp_t] += ... on a key _get_controls did not create
            Raise("KeyError", "temp_t", Some(<<>>), regs)
        ELSE
            Return(Some(<<[g |-> "r", basis |-> basis, q |-> <<<<"target", 0>>>>,
                           anc |-> <<>>, theta |-> 2 * coeffs[1]]>>
                        \o (CHOOSE gates \in
                                {PolyGates(n, thetas, basis, reverse,
                                           Cells("ancilla", regs[3]), 1) :
                                     thetas \in {get_thetas(n, coeffs, cdict)}} : TRUE)),
                   regs)

new_PolynomialRotation(n, coeffs, basis, reverse) ==
    LET r == PolynomialRotation_init(n, coeffs, basis, reverse)
    IN  /\ op = "import"
        /\ op' = "PolynomialRotation"
        /\ args' = [NoArgs EXCEPT !.n = n, !.coeffs = coeffs, !.basis = basis,
                                  !.reverse = reverse]
        /\ raised' = r.raised
        /\ msg' = r.msg
        /\ data' = r.data
        /\ qregs' = r.qregs
        /\ logged' = <<>>
        /\ UNCHANGED <<num_state_qubits, value, geq, failed_unset, result>>

\* coefficient lists c[0..d], d <= MaxDegree
CoeffDomain ==
    UNION {[1..(d + 1) -> (0 - 1)..MaxCoeff] : d \in 0..MaxDegree}

(***************************************************************************)
(* PiecewiseLinearRotation                                                 *)
(* Slopes and offsets are counted in halves, so that every value below is  *)
(* an integer.                                                             *)
(***************************************************************************)
\* most breakpoints, largest breakpoint, magnitude of a non-zero slope and
\* non-zero offset explored
MaxBreaks == 2
MaxPoint == 3
MaxSlope == 1
MaxOffset == 1

\* variant that keeps each segment's own slope
RECURSIVE mut_mapped(_, _, _, _)
mut_mapped(breakpoints, slopes, offsets, i) ==
    IF i = 1 THEN
        [slopes |-> <<slopes[1]>>, offsets |-> <<offsets[1] - slopes[1] * breakpoints[1]>>]
    ELSE
        LET prev == mut_mapped(breakpoints, slopes, offsets, i - 1)
        IN  [slopes  |-> Append(prev.slopes, slopes[i]),
             offsets |-> Append(prev.offsets, offsets[i] - slopes[i] * breakpoints[i]
                                              - SeqSum(prev.offsets))]

\* mapped_slopes[0..i-1] and mapped_offsets[0..i-1] of __init__
RECURSIVE mapped(_, _, _, _)
mapped(breakpoints, slopes, offsets, i) ==
    IF i = 1 THEN
        [slopes |-> <<slopes[1]>>, offsets |-> <<offsets[1] - slopes[1] * breakpoints[1]>>]
    ELSE
        LET prev == mapped(breakpoints, slopes, offsets, i - 1)
        IN  [slopes  |-> Append(prev.slopes, slopes[i] - SeqSum(prev.slopes)),
             offsets |-> Append(prev.offsets, offsets[i] - slopes[i] * breakpoints[i]
                                              - SeqSum(prev.offsets))]

\* variant that never discounts the zero breakpoint
mut_PiecewiseLinearRotation_num_ancillas(n, breakpoints) == n - 1 + Len(breakpoints)

\* num_ancillas (property); contains_zero_breakpoint = isclose(0, breakpoints[0])
PiecewiseLinearRotation_num_ancillas(n, breakpoints) ==
    n - 1 + Len(breakpoints) - (IF breakpoints[1] = 0 THEN 1 ELSE 0)

\* PiecewiseLinearRotation.__init__: stores the parameters, maps slopes and offsets
\* and allocates the registers; it appends no gate and does not look at basis
PiecewiseLinearRotation_init(n, breakpoints, slopes, offsets, basis) ==
    Return(Some(<<>>), <<n, 1, PiecewiseLinearRotation_num_ancillas(n, breakpoints)>>)

new_PiecewiseLinearRotation(n, breakpoints, slopes, offsets, basis) ==
    LET r == PiecewiseLinearRotation_init(n, breakpoints, slopes, offsets, basis)
    IN  /\ op = "import"
        /\ op' = "PiecewiseLinearRotation"
        /\ args' = [NoArgs EXCEPT !.n = n, !.breakpoints = breakpoints, !.slopes = slopes,
                                  !.offsets = offsets, !.basis = basis]
        /\ raised' = r.raised
        /\ msg' = r.msg
        /\ data' = r.data
        /\ qregs' = r.qregs
        /\ logged' = <<>>
        /\ UNCHANGED <<num_state_qubits, value, geq, failed_unset, result>>

\* evaluate(x), called once on the object just constructed (it changes nothing)
evaluate(x) ==
    /\ op = "PiecewiseLinearRotation"
    /\ raised = "none"
    /\ x < Pow2(args.n)
    /\ LET J == Len(args.breakpoints)
           m == mapped(args.breakpoints, args.slopes, args.offsets, J)
       IN  result' = <<x, FnSum([i \in {i \in 1..J : x >= args.breakpoints[i]} |->
                                    x * m.slopes[i] + m.offsets[i]])>>
    /\ op' = "evaluate"
    /\ UNCHANGED <<num_state_qubits, value, geq, data, qregs, raised, msg, failed_unset,
                   args, logged>>

\* np.isclose(0, breakpoints[0])
contains_zero_breakpoint(breakpoints) == breakpoints[1] = 0

\* i_compare of _build for the breakpoint of index i
i_compare(breakpoints, i) == IF contains_zero_breakpoint(breakpoints) THEN i - 1 ELSE i

\* qr_ancilla[idx] for a register of k cells: a negative index counts from the
\* end, an index outside -k .. k-1 raises IndexError (None here)
AncillaAt(k, idx) ==
    IF 0 <= idx /\ idx < k THEN Some(<<"ancilla", idx>>)
    ELSE IF 0 - k <= idx /\ idx < 0 THEN Some(<<"ancilla", k + idx>>)
    ELSE None

\* qr + qr_remaining_ancilla: the cells the comparator of breakpoint i and its
\* inverse are appended on (qr_ancilla[i_compare:] is a slice and never raises)
ComparatorQubits(n, k, ic) ==
    Cells("state", n) \o <<<<"ancilla", ic>>>> \o [j \in 1..(k - ic) |-> <<"ancilla", ic + j - 1>>]

\* qr_state + qr_target + [qr_ancilla[i - 1]]: the cells of the controlled rotation
RotationQubits(n, k, i) ==
    Cells("state", n) \o <<<<"target", 0>>>> \o <<Val(AncillaAt(k, i - 1))>>

\* LinR(n, slope, offset, basis).to_instruction(): the constructor rejects the
\* basis, or appends a gate to the data its setters have reset to None, or hands
\* that None to to_instruction
LinR(n, slope, offset, basis) ==
    IF Lower(basis) \notin {"x", "y", "z"} THEN "ValueError" ELSE "AttributeError"

\* Comparator(n, bp).to_instruction(): the comparator is built on first use
Comparator(n, bp) == build(Some(n), Some(bp * Denom), TRUE, None, <<>>)

\* the loop of _build from breakpoint i on, gates being what was appended so far;
\* each appended block is recorded with the cells it was appended on
RECURSIVE BuildLoop(_, _, _, _, _, _)
BuildLoop(n, breakpoints, m, basis, i, gates) ==
    LET k    == PiecewiseLinearRotation_num_ancillas(n, breakpoints)
        regs == <<n, 1, k>>
        ic   == i_compare(breakpoints, i)
        lin  == LinR(n, m.slopes[i + 1], m.offsets[i + 1], basis)
        comp == Comparator(n, breakpoints[i + 1])
        Block(kind, cells) == [g |-> kind, q |-> cells, anc |-> <<>>]
    IN  IF i >= Len(breakpoints) THEN Return(Some(gates), regs)
        ELSE IF i = 0 /\ contains_zero_breakpoint(breakpoints) THEN
            IF lin # "none" THEN Raise(lin, "LinR", Some(gates), regs)
            ELSE BuildLoop(n, breakpoints, m, basis, i + 1,
                           gates \o <<Block("lin_r", Cells("state", n) \o <<<<"target", 0>>>>)>>)
        ELSE IF comp.raised # "none" THEN
            Raise(comp.raised, comp.msg.text, Some(gates), regs)
        ELSE IF lin # "none" THEN
            Raise(lin, "LinR",
                  Some(gates \o <<Block("comp", ComparatorQubits(n, k, ic))>>), regs)
        ELSE IF IsNone(AncillaAt(k, i - 1)) THEN
            Raise("IndexError", "list index out of range",
                  Some(gates \o <<Block("comp", ComparatorQubits(n, k, ic))>>), regs)
        ELSE
            BuildLoop(n, breakpoints, m, basis, i + 1,
                      gates \o << Block("comp", ComparatorQubits(n, k, ic)),
                                  Block("lin_r.control", RotationQubits(n, k, i)),
                                  Block("comp.inverse", ComparatorQubits(n, k, ic)) >>)

\* a call of _build(qr_state, qr_target, qr_ancilla) with the object's own registers
PiecewiseLinearRotation_build ==
    /\ op = "PiecewiseLinearRotation"
    /\ raised = "none"
    /\ LET r == BuildLoop(args.n, args.breakpoints,
                          mapped(args.breakpoints, args.slopes, args.offsets,
                                 Len(args.breakpoints)),
                          args.basis, 0, Val(data))
       IN  /\ raised' = r.raised
           /\ msg' = r.msg
           /\ data' = r.data
    /\ op' = "PiecewiseLinearRotation._build"
    /\ UNCHANGED <<num_state_qubits, value, geq, qregs, failed_unset, args, logged, result>>

\* the parameters of test_piecewise_linear: slopes 1, 0, -0.5
PiecewiseScenario ==
    [n |-> 3, breakpoints |-> <<1, 3>>, slopes |-> <<2, 0, 0 - 1>>,
     offsets |-> <<0, 0, 0>>, basis |-> "Y"]

\* strictly increasing breakpoints in 0 .. 2^n - 1 with one slope and one offset
\* each; a basis outside X, Y, Z is tried on the functions of one breakpoint
PiecewiseDomain ==
    {PiecewiseScenario} \cup
    UNION {UNION {
        [n : {n}, basis : IF J = 1 THEN {"Y", "W"} ELSE {"Y"},
         breakpoints : {b \in [1..J -> 0..(IF Pow2(n) - 1 < MaxPoint THEN Pow2(n) - 1
                                            ELSE MaxPoint)] :
                            \A i \in 1..(J - 1) : b[i] < b[i + 1]},
         slopes : [1..J -> {0 - MaxSlope, 0, MaxSlope}],
         offsets : [1..J -> {0, MaxOffset}]] : J \in 1..MaxBreaks} : n \in 1..MaxN}

(***************************************************************************)
(* LinearPauliRotations (built on first read of data) and LinearRotation   *)
(* (built by its constructor).  An angle is an integer number of steps of  *)
(* 4*pi / FourPi.                                                          *)
(***************************************************************************)
\* steps in 4*pi, and the largest slope or offset explored
FourPi == 4
MaxAngle == 4

\* variant whose i-th angle is slope * (i + 1)
RECURSIVE mut_ControlledRotations(_, _, _, _, _)
mut_ControlledRotations(qr_state, qr_target, slope, basis, i) ==
    IF i >= Len(qr_state) THEN <<>>
    ELSE (IF (slope * (i + 1)) % FourPi # 0
          THEN <<[g |-> "cr", basis |-> basis, q |-> <<qr_state[i + 1], qr_target>>,
                  anc |-> <<>>, theta |-> slope * (i + 1)]>>
          ELSE <<>>)
         \o mut_ControlledRotations(qr_state, qr_target, slope, basis, i + 1)

\* for i, q_i in enumerate(qr_state): crx / cry / crz of slope * 2^i unless
\* isclose(theta / 4 / pi % 1, 0)
RECURSIVE ControlledRotations(_, _, _, _, _)
ControlledRotations(qr_state, qr_target, slope, basis, i) ==
    IF i >= Len(qr_state) THEN <<>>
    ELSE (IF (slope * Pow2(i)) % FourPi # 0
          THEN <<[g |-> "cr", basis |-> basis, q |-> <<qr_state[i + 1], qr_target>>,
                  anc |-> <<>>, theta |-> slope * Pow2(i)]>>
          ELSE <<>>)
         \o ControlledRotations(qr_state, qr_target, slope, basis, i + 1)

\* the gates of _build: rx / ry / rz of offset unless isclose(offset / 4 / pi % 1, 0),
\* then the controlled rotations
LinearGates(qr_state, qr_target, slope, offset, basis) ==
    (IF offset % FourPi # 0
     THEN <<[g |-> "r", basis |-> basis, q |-> <<qr_target>>, anc |-> <<>>,
             theta |-> offset]>>
     ELSE <<>>)
    \o ControlledRotations(qr_state, qr_target, slope, basis, 0)

\* LinearPauliRotations._build; num_qubits = 0 stands for a circuit without qubits
\* (num_qubits None or 0), for which self.num_qubits is 0, not None
LinearPauliRotations_build(num_qubits, slope, offset, basis) ==
    IF num_qubits = 0 THEN
        \* self._data = [] precedes self.qubits[-1]
        Raise("IndexError", "list index out of range", Some(<<>>), <<>>)
    ELSE
        Return(Some(LinearGates(Cells("q", num_qubits - 1), <<"q", num_qubits - 1>>,
                                slope, offset, basis)),
               <<num_qubits>>)

\* LinearPauliRotations.__init__(num_qubits, slope, offset, basis)
new_LinearPauliRotations(num_qubits, slope, offset, basis) ==
    /\ op = "import"
    /\ op' = "LinearPauliRotations"
    /\ args' = [NoArgs EXCEPT !.n = num_qubits, !.slope = slope, !.offset = offset,
                              !.basis = basis]
    /\ IF Lower(basis) \in {"x", "y", "z"}
       THEN /\ raised' = "none"
            /\ msg' = Text("")
            /\ qregs' = IF num_qubits = 0 THEN <<>> ELSE <<num_qubits>>
       ELSE /\ raised' = "ValueError"
            /\ msg' = Text("The provided basis must be X, Y or Z")
            /\ qregs' = <<>>
    /\ data' = None
    /\ logged' = <<>>
    /\ UNCHANGED <<num_state_qubits, value, geq, failed_unset, result>>

\* a LinearPauliRotations object exists: its constructor returned
LinearPauliRotationsExists ==
    \/ op = "LinearPauliRotations" /\ raised = "none"
    \/ op \in {"LinearPauliRotations.basis", "LinearPauliRotations.data"}

\* basis.setter
LinearPauliRotations_set_basis(basis) ==
    /\ LinearPauliRotationsExists
    /\ op' = "LinearPauliRotations.basis"
    /\ result' = <<basis>>
    /\ IF Lower(basis) = Lower(args.basis) THEN
           /\ raised' = "none"
           /\ msg' = Text("")
           /\ UNCHANGED <<args, data>>
       ELSE IF Lower(basis) \notin {"x", "y", "z"} THEN
           /\ raised' = "ValueError"
           /\ msg' = Text("The provided basis must be X, Y or Z")
           /\ UNCHANGED <<args, data>>
       ELSE
           /\ raised' = "none"
           /\ msg' = Text("")
           /\ args' = [args EXCEPT !.basis = basis]
           /\ data' = None
    /\ UNCHANGED <<num_state_qubits, value, geq, qregs, failed_unset, logged>>

\* data (property): builds when _data is None
LinearPauliRotations_data ==
    /\ LinearPauliRotationsExists
    /\ op' = "LinearPauliRotations.data"
    /\ result' = None
    /\ IF IsNone(data) THEN
           LET b == LinearPauliRotations_build(args.n, args.slope, args.offset,
                                               Lower(args.basis))
           IN  /\ raised' = b.raised
               /\ msg' = b.msg
               /\ data' = b.data
       ELSE
           /\ raised' = "none"
           /\ msg' = Text("")
           /\ UNCHANGED data
    /\ UNCHANGED <<num_state_qubits, value, geq, qregs, failed_unset, args, logged>>

\* LinearRotation.__init__(num_state_qubits, slope, offset, basis), with _build: the
\* setters leave _data None, and the first gate _build emits is appended to it
LinearRotation_init(n, slope, offset, basis) ==
    IF Lower(basis) \notin {"x", "y", "z"} THEN
        Raise("ValueError", "The provided basis must be X, Y or Z", None, <<n, 1>>)
    ELSE IF Len(LinearGates(Cells("state", n), <<"target", 0>>, slope, offset,
                            Lower(basis))) > 0 THEN
        Raise("AttributeError", "'NoneType' object has no attribute 'append'",
              None, <<n, 1>>)
    ELSE
        Return(None, <<n, 1>>)

new_LinearRotation(n, slope, offset, basis) ==
    LET r == LinearRotation_init(n, slope, offset, basis)
    IN  /\ op = "import"
        /\ op' = "LinearRotation"
        /\ args' = [NoArgs EXCEPT !.n = n, !.slope = slope, !.offset = offset,
                                  !.basis = basis]
        /\ raised' = r.raised
        /\ msg' = r.msg
        /\ data' = r.data
        /\ qregs' = r.qregs
        /\ logged' = <<>>
        /\ UNCHANGED <<num_state_qubits, value, geq, failed_unset, result>>

SlopeDomain == (0 - 1)..MaxAngle
OffsetDomain == 0..MaxAngle

(***************************************************************************)
(* MCXGate (generalized_gates/mcx.py)                                      *)
(***************************************************************************)
\* largest number of control qubits explored
MaxCtrl == 5

\* mode strings, one character per element
noancilla == <<"n", "o", "a", "n", "c", "i", "l", "l", "a">>
recursion == <<"r", "e", "c", "u", "r", "s", "i", "o", "n">>
advanced  == <<"a", "d", "v", "a", "n", "c", "e", "d">>
v_chain   == <<"v", "-", "c", "h", "a", "i", "n">>
basic     == <<"b", "a", "s", "i", "c">>
v_chain_dirty       == v_chain \o <<"-", "d", "i", "r", "t", "y">>
basic_dirty_ancilla == basic \o <<"-", "d", "i", "r", "t", "y", "-">> \o
                       <<"a", "n", "c", "i", "l", "l", "a">>

\* available_implementations.keys()
available_implementations ==
    {noancilla, recursion, v_chain, v_chain_dirty, advanced, basic, basic_dirty_ancilla}

\* the mode strings explored: the seven keys, and 'v-chain-clean', 'basics',
\* 'gray', 'Basic', 'v-chai' and ''
ModeDomain ==
    available_implementations \cup
    {v_chain \o <<"-", "c", "l", "e", "a", "n">>, basic \o <<"s">>,
     <<"g", "r", "a", "y">>, <<"B", "a", "s", "i", "c">>,
     <<"v", "-", "c", "h", "a", "i">>, <<>>}

\* mode[:k]
Prefix(mode, k) == SubSeq(mode, 1, IF k < Len(mode) THEN k ELSE Len(mode))

\* MCXGate.get_num_ancilla_qubits(num_ctrl_qubits, mode) (static method)
get_num_ancilla_qubits(num_ctrl_qubits, mode) ==
    IF mode = noancilla THEN [raised |-> "none", value |-> 0]
    ELSE IF mode \in {recursion, advanced} THEN
        [raised |-> "none", value |-> IF num_ctrl_qubits > 4 THEN 1 ELSE 0]
    ELSE IF Prefix(mode, 7) = v_chain \/ Prefix(mode, 5) = basic THEN
        [raised |-> "none", value |-> Max(0, num_ctrl_qubits - 2)]
    ELSE [raised |-> "AttributeError", value |-> 0]

\* a call of MCXGate.get_num_ancilla_qubits(num_ctrl_qubits, mode)
call_get_num_ancilla_qubits(num_ctrl_qubits, mode) ==
    LET r == get_num_ancilla_qubits(num_ctrl_qubits, mode)
    IN  /\ op = "import"
        /\ op' = "get_num_ancilla_qubits"
        /\ raised' = r.raised
        /\ msg' = Text(IF r.raised = "none" THEN "" ELSE "Unsupported mode ({}) specified!")
        /\ result' = IF r.raised = "none" THEN <<<<num_ctrl_qubits, mode>>, r.value>>
                     ELSE <<<<num_ctrl_qubits, mode>>>>
        /\ UNCHANGED <<num_state_qubits, value, geq, data, qregs, failed_unset, args, logged>>

\* MCXGate(num_ctrl_qubits, mode): __new__ runs first and builds the dict
\* {1: CXGate, 2: CCXGate}; the module imports only QuantumCircuit, so the
\* name lookup fails before __init__ is entered
new_MCXGate(num_ctrl_qubits, mode) ==
    /\ op = "import"
    /\ op' = "MCXGate"
    /\ raised' = "NameError"
    /\ msg' = Text("name 'CXGate' is not defined")
    /\ result' = <<<<num_ctrl_qubits, mode>>>>
    /\ UNCHANGED <<num_state_qubits, value, geq, data, qregs, failed_unset, args, logged>>

InitLib ==
    /\ num_state_qubits = None
    /\ value = None
    /\ geq = TRUE
    /\ failed_unset = FALSE
    /\ data = None
    /\ qregs = <<>>
    /\ op = "import"
    /\ raised = "none"
    /\ msg = Text("")
    /\ args = NoArgs
    /\ logged = <<>>
    /\ result = None

NextLib ==
    \/ /\ op = "import"
       /\ \E n \in 1..MaxN : new_ClassicalAdd(n)
    \/ /\ op = "import"
       /\ \E n \in 1..MaxN : \E adder \in AdderDomain : new_Subtractor(n, adder)
    \/ /\ op = "import"
       /\ \E n \in 1..MaxN : \E adder \in {StrAdder, NoAdder, DraperQFTAdder(n)} :
              new_TwosComplement(n, adder)
    \/ /\ op = "import"
       /\ \E n \in 1..MaxN : \E weights \in WeightDomain(n) : \E frac \in FracDomain(n) :
              new_WeightedAdder(n, weights, frac)
    \/ /\ op = "import"
       /\ \E n \in 1..MaxN : \E coeffs \in CoeffDomain : \E basis \in BasisDomain :
              \E reverse \in BOOLEAN : new_PolynomialRotation(n, coeffs, basis, reverse)
    \/ /\ op = "import"
       /\ \E a \in PiecewiseDomain :
              new_PiecewiseLinearRotation(a.n, a.breakpoints, a.slopes, a.offsets, a.basis)
    \/ \E x \in 0..(Pow2(MaxN) - 1) : evaluate(x)
    \/ PiecewiseLinearRotation_build
    \/ /\ op = "import"
       /\ \E num_qubits \in 0..(MaxN + 1) : \E slope \in SlopeDomain :
              \E offset \in OffsetDomain : \E basis \in BasisDomain :
                  new_LinearPauliRotations(num_qubits, slope, offset, basis)
    \/ \E basis \in BasisDomain : LinearPauliRotations_set_basis(basis)
    \/ LinearPauliRotations_data
    \/ /\ op = "import"
       /\ \E n \in 1..MaxN : \E slope \in SlopeDomain :
              \E offset \in OffsetDomain : \E basis \in BasisDomain :
                  new_LinearRotation(n, slope, offset, basis)
    \/ /\ op = "import"
       /\ \E num_ctrl_qubits \in 0..MaxCtrl : \E mode \in ModeDomain :
              call_get_num_ancilla_qubits(num_ctrl_qubits, mode)
    \/ /\ op = "import"
       /\ \E num_ctrl_qubits \in 0..MaxCtrl : \E mode \in ModeDomain :
              new_MCXGate(num_ctrl_qubits, mode)

SpecLib == InitLib /\ [][NextLib]_vars

(***************************************************************************)
(* ClassicalAdd: properties                                                *)
(***************************************************************************)
AddCells(n) ==
    {Qa(j) : j \in 0..(n - 1)} \cup {Qb(j) : j \in 0..(n - 1)}
    \cup {Cin(j) : j \in 0..(n - 1)} \cup {Cout}

\* registers a and b hold a and b, every carry cell holds 0
AddInput(n, a, b) ==
    [c \in AddCells(n) |->
        IF c[1] = "a" THEN Bit(a, c[2])
        ELSE IF c[1] = "b" THEN Bit(b, c[2]) ELSE 0]

Constructed == raised = "none" /\ ~IsNone(data)

\* C6: the gate sequence ClassicalAdd emits maps (a, b, carries 0) to
\* (a, (a+b) mod 2^n) with carry-out 1 exactly when a+b >= 2^n.
C6_AdderSum ==
    (op = "ClassicalAdd") =>
        /\ Constructed
        /\ LET n == args.n
           IN  \A a \in 0..(Pow2(n) - 1) : \A b \in 0..(Pow2(n) - 1) :
                   LET out == Run(Val(data), AddInput(n, a, b))
                   IN  /\ RegValue(out, "a", n) = a
                       /\ RegValue(out, "b", n) = (a + b) % Pow2(n)
                       /\ out[Cout] = (IF a + b >= Pow2(n) THEN 1 ELSE 0)

\* C7: after the last gate of ClassicalAdd every cell cin[0..n-1] holds 0 again.
C7_CarriesUncomputed ==
    (op = "ClassicalAdd") =>
        /\ Constructed
        /\ LET n == args.n
           IN  \A a \in 0..(Pow2(n) - 1) : \A b \in 0..(Pow2(n) - 1) :
                   \A j \in 0..(n - 1) :
                       Run(Val(data), AddInput(n, a, b))[Cin(j)] = 0

(***************************************************************************)
(* Subtractor: properties                                                  *)
(***************************************************************************)
\* cells of registers given as <<name, size>> pairs
RegCells(regs) == UNION {{<<r[1], i>> : i \in 0..(r[2] - 1)} : r \in regs}

SubCells(n, helpers) ==
    RegCells({<<"a", n>>, <<"b", n>>, <<"carry_b", 1>>, <<"carry_a", 1>>,
              <<"helper", helpers>>})

\* registers a and b hold a and b, every carry and helper cell holds 0
SubInput(n, helpers, a, b) ==
    [c \in SubCells(n, helpers) |->
        IF c[1] = "a" THEN Bit(a, c[2])
        ELSE IF c[1] = "b" THEN Bit(b, c[2]) ELSE 0]

ActualStateQubits == args.adder.num_qubits - args.adder.num_ancillas
TargetStateQubits == 2 * (args.n + 1)

\* the default adder, or a supplied adder that passes the compatibility check
AdderAccepted ==
    args.adder.kind = "None" \/ ActualStateQubits = TargetStateQubits

\* C8: the Subtractor circuit, applied with all carry and helper cells 0, leaves
\* register a equal to a and the n cells of register b holding (a-b) mod 2^n.
C8_SubtractorDifference ==
    (op = "Subtractor" /\ AdderAccepted) =>
        /\ Constructed
        /\ LET n == args.n
           IN  \A a \in 0..(Pow2(n) - 1) : \A b \in 0..(Pow2(n) - 1) :
                   LET out == Run(Val(data), SubInput(n, qregs[5], a, b))
                   IN  /\ RegValue(out, "a", n) = a
                       /\ RegValue(out, "b", n) = (a - b) % Pow2(n)

\* C9: Subtractor(n, adder) with a supplied adder raises the configuration error,
\* naming adder.num_qubits - adder.num_ancillas and 2*(n+1), exactly when the two
\* differ, and then no register is allocated and no sub-circuit is spliced.
C9_AdderCompatibility ==
    (op = "Subtractor" /\ args.adder.kind = "circuit") =>
        IF ActualStateQubits # TargetStateQubits THEN
            /\ raised = "ValueError"
            /\ msg.nums = <<ActualStateQubits, TargetStateQubits>>
            /\ IsNone(data)
            /\ qregs = <<>>
        ELSE raised # "ValueError"

\* a supplied adder with work cells is rejected for its state-qubit count
C9_Rejected ==
    /\ op = "Subtractor"
    /\ args.adder.kind = "circuit"
    /\ args.adder.num_ancillas > 0
    /\ args.adder.num_qubits = TargetStateQubits
    /\ raised = "ValueError"

(***************************************************************************)
(* WeightedAdder: properties                                               *)
(***************************************************************************)
WaCells(n, m, k) == RegCells({<<"state", n>>, <<"sum", m>>, <<"ancilla", k>>})

\* state register holds x, sum register and ancillas hold 0
WaInput(n, m, k, x) ==
    [c \in WaCells(n, m, k) |-> IF c[1] = "state" THEN Bit(x, c[2]) ELSE 0]

\* sum over i of w[i] * x[i]
RECURSIVE WeightedSum(_, _, _)
WeightedSum(w, x, i) ==
    IF i > Len(w) THEN 0 ELSE w[i] * Bit(x, i - 1) + WeightedSum(w, x, i + 1)

\* C10: for non-negative integer weights with sum >= 1, the WeightedAdder gate
\* sequence applied to state x, sum 0, ancillas 0 leaves the state register
\* unchanged and the sum register holding the sum over i of w[i]*x[i].
C10_WeightedSum ==
    (op = "WeightedAdder" /\ SeqSum(args.frac) = 0 /\ SeqSum(args.weights) >= 1) =>
        /\ Constructed
        /\ LET n == args.n
               m == qregs[2]
           IN  \A x \in 0..(Pow2(n) - 1) :
                   LET out == Run(Val(data), WaInput(n, m, qregs[3], x))
                   IN  /\ RegValue(out, "state", n) = x
                       /\ RegValue(out, "sum", m) = WeightedSum(args.weights, x, 1)

\* C11: for weights with sum S >= 1 the sum register has m cells, m the least
\* width with S < 2^m (= floor(log2(S)) + 1), and the ancilla register has m-1
\* cells when m <= 2 and m cells when m > 2.
C11_RegisterWidths ==
    (op = "WeightedAdder" /\ SeqSum(args.weights) >= 1) =>
        \* the integer part of the sum
        LET total == SeqSum(args.weights) + (SeqSum(args.frac) \div Denom)
            m == qregs[2]
        IN  /\ Len(qregs) = 3
            /\ qregs[1] = args.n
            /\ m >= 1
            /\ total < Pow2(m)
            /\ Pow2(m - 1) <= total
            /\ \A k \in 1..(m - 1) : \E t \in 0..total : t >= Pow2(k)
            /\ qregs[3] = (IF m <= 2 THEN m - 1 ELSE m)

\* a weighted adder whose sum register is wider than two cells
C11_WideSum ==
    /\ op = "WeightedAdder"
    /\ SeqSum(args.weights) >= 4
    /\ qregs[2] > 2
    /\ qregs[3] = qregs[2]
    /\ Constructed

\* value of np.round for weights[i] + frac[i] / Denom (ties go to the even integer)
RoundedWeight(w, fr) ==
    IF 2 * fr > Denom THEN w + 1
    ELSE IF 2 * fr = Denom /\ w % 2 = 1 THEN w + 1
    ELSE w

\* C12: a WeightedAdder given a non-integer weight is constructed, logs a warning,
\* and its gates add to the sum register, for every set state bit, the weight
\* rounded to the nearest integer.
C12_RoundedWeights ==
    (op = "WeightedAdder" /\ SeqSum(args.frac) > 0) =>
        /\ Constructed
        /\ Len(logged) > 0
        /\ LET n == args.n
               m == qregs[2]
               rounded == [i \in 1..n |-> RoundedWeight(args.weights[i], args.frac[i])]
           IN  \A x \in 0..(Pow2(n) - 1) :
                   RegValue(Run(Val(data), WaInput(n, m, qregs[3], x)), "sum", m)
                       = WeightedSum(rounded, x, 1) % Pow2(m)

\* sum over j = 1..d of c[j] * x^j
RECURSIVE PolyValue(_, _, _)
PolyValue(coeffs, x, j) ==
    IF j >= Len(coeffs) THEN 0
    ELSE LET RECURSIVE Power(_)
             Power(e) == IF e = 0 THEN 1 ELSE x * Power(e - 1)
         IN  coeffs[j + 1] * Power(j) + PolyValue(coeffs, x, j + 1)

\* C13: for every x the angles _get_thetas gives to the monomials whose bits are
\* all set in x (bit i of x being state cell i) sum to c[1]*x + ... + c[d]*x^d.
C13_MonomialAngles ==
    (op = "PolynomialRotation" /\ Lower(args.basis) \in {"x", "y", "z"}) =>
        /\ Constructed
        /\ LET n == args.n
               thetas == get_thetas(n, args.coeffs,
                                    get_controls(n, Len(args.coeffs) - 1))
           IN  \A x \in 0..(Pow2(n) - 1) :
                   FnSum([c \in {c \in DOMAIN thetas :
                                    \A k \in c : Bit(x, k) = 1} |-> thetas[c]])
                       = PolyValue(args.coeffs, x, 1)

\* a polynomial of degree 2 with a non-zero leading coefficient on two or more bits
C13_Quadratic ==
    /\ op = "PolynomialRotation"
    /\ Constructed
    /\ args.n >= 2
    /\ Len(args.coeffs) = 3
    /\ args.coeffs[3] # 0
    /\ Len(Val(data)) > 2

\* the piecewise value: 0 below the first breakpoint, else a_j*(x - x_j) + b_j for
\* the last breakpoint x_j <= x
Piecewise(x) ==
    LET below == {i \in 1..Len(args.breakpoints) : args.breakpoints[i] <= x}
    IN  IF below = {} THEN 0
        ELSE LET j == CHOOSE j \in below : \A i \in below : i <= j
             IN  args.slopes[j] * (x - args.breakpoints[j]) + args.offsets[j]

\* C14: for increasing breakpoints with one slope and one offset each and every x
\* in 0..2^n-1, evaluate(x) equals the direct piecewise value.
C14_EvaluateIsPiecewise ==
    (op = "evaluate" /\ Len(args.slopes) = Len(args.breakpoints)
                     /\ result[1] < Pow2(args.n)) =>
        result[2] = Piecewise(result[1])

\* evaluate at a point past the second of two breakpoints, with slopes that differ
C14_SecondSegment ==
    /\ op = "evaluate"
    /\ Len(args.breakpoints) = 2
    /\ Len(args.slopes) = 2
    /\ args.slopes[1] # args.slopes[2]
    /\ args.slopes[1] # 0
    /\ result[1] > args.breakpoints[2]
    /\ result[1] < Pow2(args.n)

\* C15: for n=3, breakpoints [1,3], slopes [1,0,-0.5], offsets [0,0,0], evaluate
\* returns 0 at x=0, 1 at x=2, 1 at x=4 and 0.5 at x=5 (in halves: 0, 2, 2, 1).
C15_ScenarioValues ==
    (op = "evaluate" /\ args.n = 3 /\ args.breakpoints = <<1, 3>>
                     /\ args.slopes = <<2, 0, 0 - 1>> /\ args.offsets = <<0, 0, 0>>) =>
        /\ result[1] = 0 => result[2] = 0
        /\ result[1] = 2 => result[2] = 2
        /\ result[1] = 4 => result[2] = 2
        /\ result[1] = 5 => result[2] = 1

\* C16: PiecewiseLinearRotation allocates (n-1) + J ancilla cells, one fewer when
\* the first breakpoint is 0: one result cell for each non-zero breakpoint and n-1
\* further cells for the comparator's scratch.
C16_AncillaBudget ==
    (op = "PiecewiseLinearRotation") =>
        LET n == args.n
            J == Len(args.breakpoints)
            nonzero == {i \in 1..J : args.breakpoints[i] # 0}
        IN  /\ Constructed
            /\ qregs[3] = (n - 1) + J - (IF args.breakpoints[1] = 0 THEN 1 ELSE 0)
            /\ qregs[3] - Cardinality(nonzero) >= n - 1

\* two breakpoints, the first of them 0
C16_ZeroBreakpoint ==
    /\ op = "PiecewiseLinearRotation"
    /\ Constructed
    /\ Len(args.breakpoints) = 2
    /\ args.breakpoints[1] = 0
    /\ qregs[3] = args.n

\* the gates of a built linear rotation that act on the target alone, and the
\* state bits that control a gate
Uncontrolled == {k \in 1..Len(Val(data)) : Len(Val(data)[k].q) = 1}
ControlOf(k) == Val(data)[k].q[1][2]

\* C17: the built LinearPauliRotations circuit is one rotation by offset on the
\* target, then for state bits i = 0..n-1 in ascending order one rotation by
\* slope*2^i controlled on bit i; a rotation is left out exactly when its angle is
\* a multiple of 4*pi, so for every x the emitted angles whose control is set sum
\* with the offset to offset + slope*x up to the multiples of 4*pi left out.
C17_LinearGateSequence ==
    (op = "LinearPauliRotations.data" /\ args.n >= 1) =>
        /\ Constructed
        /\ LET gates == Val(data)
               n == args.n - 1
               controlled == (1..Len(gates)) \ Uncontrolled
           IN  /\ Uncontrolled = (IF args.offset % FourPi # 0 THEN {1} ELSE {})
               /\ \A k \in Uncontrolled :
                      gates[k].theta = args.offset /\ gates[k].q = <<<<"q", n>>>>
               /\ \A k \in controlled :
                      /\ gates[k].q = <<<<"q", ControlOf(k)>>, <<"q", n>>>>
                      /\ gates[k].theta = args.slope * Pow2(ControlOf(k))
                      /\ gates[k].basis = Lower(args.basis)
               /\ \A k, l \in controlled : k < l => ControlOf(k) < ControlOf(l)
               /\ \A i \in 0..(n - 1) :
                      (\E k \in controlled : ControlOf(k) = i)
                          <=> ((args.slope * Pow2(i)) % FourPi # 0)
               /\ \A x \in 0..(Pow2(n) - 1) :
                      (FnSum([k \in Uncontrolled
                                  \cup {k \in controlled : Bit(x, ControlOf(k)) = 1}
                              |-> gates[k].theta]) % FourPi)
                          = ((args.offset + args.slope * x) % FourPi)

\* a built circuit with an offset rotation, an emitted and a left-out controlled one
C17_SomeLeftOut ==
    /\ op = "LinearPauliRotations.data"
    /\ Constructed
    /\ args.n >= 3
    /\ args.offset % FourPi # 0
    /\ args.slope % FourPi # 0
    /\ (args.slope * Pow2(args.n - 2)) % FourPi = 0
    /\ Len(Val(data)) >= 2

\* C18: each rotation synthesizer rejects a basis outside {X, Y, Z} (compared
\* without regard to case) when the basis is passed to the constructor or assigned.
C18_BasisRejectedAtOnce ==
    /\ (/\ op \in {"LinearPauliRotations", "LinearRotation", "PolynomialRotation",
                   "PiecewiseLinearRotation"}
        /\ Lower(args.basis) \notin {"x", "y", "z"}) => raised # "none"
    /\ (/\ op = "LinearPauliRotations.basis"
        /\ Lower(result[1]) \notin {"x", "y", "z"}) => raised # "none"

\* C19: the TwosComplement gate sequence, applied to b with the ancilla register
\* at 0, leaves register b holding (-b) mod 2^n and every ancilla cell at 0.
C19_TwosComplementNegates ==
    (op = "TwosComplement") =>
        /\ Constructed
        /\ LET n == args.n
               cells == {TwosComplementQubits(n)[i] : i \in 1..(2 * n)}
           IN  \A b \in 0..(Pow2(n) - 1) :
                   LET out == Run(Val(data),
                                  [c \in cells |->
                                      IF c[1] = "input_b" THEN Bit(b, c[2]) ELSE 0])
                   IN  /\ RegValue(out, "input_b", n) = (Pow2(n) - b) % Pow2(n)
                       /\ RegValue(out, "cin", n) = 0

\* C20: when a read of data on a lazily built circuit fails, the next read made
\* without changing a parameter fails in the same way.
C20_FailureRecurs ==
    [][(/\ op = "LinearPauliRotations.data"
        /\ raised # "none"
        /\ op' = "LinearPauliRotations.data") => raised' = raised]_vars

(***************************************************************************)
(* FixedValueComparator: non-integer comparison values                     *)
(***************************************************************************)
\* the number whose binary digits are bits, the first least significant
RECURSIVE BitsValue(_, _)
BitsValue(bits, i) ==
    IF i > Len(bits) THEN 0 ELSE bits[i] * Pow2(i - 1) + BitsValue(bits, i + 1)

\* the least integer not below v / Denom
LeastIntegerAbove(v) == CHOOSE c \in (0 - 1)..(Pow2(MaxN) + 1) :
                            c * Denom >= v /\ (c - 1) * Denom < v

\* C21: for 0 < L < 2^n, _get_twos_complement returns exactly n bits, least
\* significant first, whose value is 2^n - ceil(L).
C21_TwosComplementBits ==
    (/\ op = "_get_twos_complement" /\ Configured
     /\ 0 < Val(value) /\ Val(value) < Pow2(Val(num_state_qubits)) * Denom) =>
        /\ raised = "none"
        /\ Len(Val(result)) = Val(num_state_qubits)
        /\ \A i \in 1..Len(Val(result)) : Val(result)[i] \in {0, 1}
        /\ BitsValue(Val(result), 1) =
               Pow2(Val(num_state_qubits)) - LeastIntegerAbove(Val(value))

\* a call with a non-integer value on a register of two or more cells
C21_FractionalValue ==
    /\ op = "_get_twos_complement" /\ Configured /\ raised = "none"
    /\ Val(value) % Denom # 0
    /\ 0 < Val(value) /\ Val(value) < Pow2(Val(num_state_qubits)) * Denom
    /\ Val(num_state_qubits) >= 2
    /\ BitsValue(Val(result), 1) > 0

\* C22: a read of `data` with a non-integer value L, 0 < L < 2^n, yields gates
\* that set result to 1 exactly when (x >= ceil(L)) = geq, for every width n and
\* every x.
C22_NonIntegerValue ==
    (/\ op = "data" /\ Configured
     /\ Val(value) % Denom # 0
     /\ 0 < Val(value) /\ Val(value) < Pow2(Val(num_state_qubits)) * Denom) =>
        /\ Built
        /\ LET n == Val(num_state_qubits)
           IN  \A x \in 0..(Pow2(n) - 1) :
                   Run(Val(data), CmpInput(n, x))[R] =
                       (IF (x >= LeastIntegerAbove(Val(value))) = geq THEN 1 ELSE 0)

(***************************************************************************)
(* WeightedAdder: the passes of one weight                                 *)
(***************************************************************************)
\* the gates of data emitted for state qubit i (compute pass, then uncompute pass)
RECURSIVE PassStart(_)
PassStart(i) ==
    IF i <= 0 THEN 0
    ELSE PassStart(i - 1) + Len(WeightGates(qregs[2], i - 1, args.weights[i],
                                               args.frac[i], <<"ancilla", qregs[2] - 1>>))

PassOf(i) == SubSeq(Val(data), PassStart(i) + 1, PassStart(i + 1))

\* state qubit i holds b, the sum register s, the carry cells 0, the helper cell h
PassInput(n, m, i, b, s, h) ==
    [c \in WaCells(n, m, m) |->
        IF c = <<"state", i>> THEN b
        ELSE IF c[1] = "sum" THEN Bit(s, c[2])
        ELSE IF c = <<"ancilla", m - 1>> THEN h
        ELSE 0]

\* C23: after the compute pass and the uncompute pass of each single weight,
\* every carry cell holds 0 again and the helper cell is unchanged, for every
\* value of the sum register before the pass and both values of the state bit.
C23_CarriesRestoredPerWeight ==
    (op = "WeightedAdder" /\ Constructed) =>
        LET n == args.n
            m == qregs[2]
        IN  \A i \in 0..(n - 1) : \A gates \in {PassOf(i)} :
                \A b \in {0, 1} : \A h \in {0, 1} : \A s \in 0..(Pow2(m) - 1) :
                    LET out == Run(gates, PassInput(n, m, i, b, s, h))
                    IN  /\ \A j \in 0..(m - 2) : out[Qcarry(j)] = 0
                        /\ out[<<"ancilla", m - 1>>] = h

\* a weight after the first whose compute pass, taken alone, leaves a carry cell set
C23_CarrySetByCompute ==
    /\ op = "WeightedAdder" /\ Constructed
    /\ \E i \in 1..(args.n - 1) : \E s \in 0..(Pow2(qregs[2]) - 1) :
           LET m   == qregs[2]
               mid == Run(ComputePass(m, i, weight_binary(m, args.weights[i + 1]), 0,
                                      <<"ancilla", m - 1>>),
                          PassInput(args.n, m, i, 1, s, 0))
           IN  /\ args.weights[i + 1] > 0
               /\ \E j \in 0..(m - 2) : mid[Qcarry(j)] = 1

(***************************************************************************)
(* PiecewiseLinearRotation: _build                                         *)
(***************************************************************************)
\* the indices i of the breakpoints _build treats with a comparator
ComparedBreakpoints ==
    {i \in 0..(Len(args.breakpoints) - 1) :
        ~(i = 0 /\ contains_zero_breakpoint(args.breakpoints))}

HasDuplicate(q) == \E a, b \in 1..Len(q) : a # b /\ q[a] = q[b]

\* C24: for every breakpoint that is not the zero breakpoint, the controlled
\* rotation is controlled on the ancilla cell that holds the comparator's
\* result, with and without a zero breakpoint.
C24_ControlIsCompareCell ==
    (op = "PiecewiseLinearRotation._build") =>
        \A i \in ComparedBreakpoints :
            AncillaAt(qregs[3], i - 1) =
                Some(<<"ancilla", i_compare(args.breakpoints, i)>>)

\* C25: every comparator and its inverse is appended on a list of 2*n cells
\* that holds no cell twice.
C25_ComparatorSplice ==
    (op = "PiecewiseLinearRotation._build") =>
        \A i \in ComparedBreakpoints :
            LET q == ComparatorQubits(args.n, qregs[3], i_compare(args.breakpoints, i))
            IN  Len(q) = 2 * args.n /\ ~HasDuplicate(q)

\* C27: the object returned by the constructor holds, without a further call,
\* one rotation block per breakpoint.
C27_ConstructorHoldsGates ==
    (op = "PiecewiseLinearRotation") =>
        /\ Constructed
        /\ Cardinality({p \in 1..Len(Val(data)) :
                           Val(data)[p].g \in {"lin_r", "lin_r.control"}})
               = Len(args.breakpoints)

(***************************************************************************)
(* Subtractor: the cells its two sub-circuits are spliced on               *)
(***************************************************************************)
\* the adder the Subtractor uses: the supplied one, or DraperQFTAdder(n + 1)
UsedAdder == IF args.adder.kind = "None" THEN DraperQFTAdder(args.n + 1) ELSE args.adder

\* C26: the negator is spliced on as many cells as the TwosComplement circuit
\* has, the adder on adder.num_qubits cells, neither list holds a cell twice and
\* every cell lies in the registers a, b, carry_b, carry_a, helper of the
\* Subtractor; for the default adder and every supplied adder that passes the check.
C26_SpliceLists ==
    (op = "Subtractor" /\ AdderAccepted) =>
        LET n       == args.n
            helpers == Max(UsedAdder.num_ancillas, n)
            negq    == NegatorQubits(n, n)
            addq    == AdderQubits(n, UsedAdder.num_ancillas)
        IN  /\ Len(negq) = Len(TwosComplementQubits(n))
            /\ Len(addq) = UsedAdder.num_qubits
            /\ ~HasDuplicate(negq) /\ ~HasDuplicate(addq)
            /\ \A p \in 1..Len(negq) : negq[p] \in SubCells(n, helpers)
            /\ \A p \in 1..Len(addq) : addq[p] \in SubCells(n, helpers)

(***************************************************************************)
(* MCXGate: the number of ancilla qubits of a mode                         *)
(***************************************************************************)
\* C28: get_num_ancilla_qubits(k, mode) returns 0 for 'noancilla', 1 if k > 4
\* else 0 for 'recursion' and 'advanced', max(0, k - 2) for the four v-chain
\* modes, and raises for every other mode string; constructing an MCXGate with
\* a mode outside the seven raises as well.
C28_AncillaCountOrError ==
    /\ op = "get_num_ancilla_qubits" =>
           LET k    == result[1][1]
               mode == result[1][2]
           IN  IF mode = noancilla THEN raised = "none" /\ result[2] = 0
               ELSE IF mode \in {recursion, advanced}
                    THEN raised = "none" /\ result[2] = (IF k > 4 THEN 1 ELSE 0)
               ELSE IF mode \in {v_chain, v_chain_dirty, basic, basic_dirty_ancilla}
                    THEN raised = "none" /\ result[2] = Max(0, k - 2)
               ELSE raised # "none"
    /\ (op = "MCXGate" /\ result[1][2] \notin available_implementations) => raised # "none"

(***************************************************************************)
(* FixedValueComparator: the mutual calls of qregs and _check_configuration *)
(***************************************************************************)
\* C29: with num_state_qubits and value both set, a read of `data` ends: the
\* calls between the qregs getter and _check_configuration stop before the
\* interpreter's recursion limit, the registers are allocated and the gates of
\* the build are in `data`; for n = 1 as for n > 1.
C29_DataReadTerminates ==
    (op = "data" /\ ~IsNone(num_state_qubits) /\ ~IsNone(value)) =>
        /\ raised # "RecursionError"
        /\ Len(qregs) = (IF Val(num_state_qubits) > 1 THEN 3 ELSE 2)
        /\ ~IsNone(data)
        /\ Len(Val(data)) = Len(comparator_gates(Val(num_state_qubits), Val(value), geq))

(***************************************************************************)
(* WeightedAdder: the cells _build addresses                               *)
(***************************************************************************)
\* every gate of `data` acts on allocated cells only
WaGatesInside ==
    \A p \in 1..Len(Val(data)) :
        /\ \A c \in 1..Len(Val(data)[p].q) :
               Val(data)[p].q[c] \in WaCells(qregs[1], qregs[2], qregs[3])
        /\ \A c \in 1..Len(Val(data)[p].anc) :
               Val(data)[p].anc[c] \in WaCells(qregs[1], qregs[2], qregs[3])

\* C30: for every weight vector with sum >= 1, every cell _build indexes (sum[j],
\* carry[j], carry[j - 1], ancilla[num_carry_qubits]) exists in its register, also
\* when the sum register has 1 or 2 cells: the construction raises no IndexError
\* and its gates act on allocated cells only.
C30_IndicesInsideRegisters ==
    (op = "WeightedAdder" /\ SeqSum(args.weights) * Denom + SeqSum(args.frac) >= Denom) =>
        /\ raised # "IndexError"
        /\ Constructed
        /\ WaGatesInside

====
